---- MODULE Spec2Model ----
(***************************************************************************)
(* Model of the spectral-logging application (src/unnamed/part_000):       *)
(* main samples the ADC four times into one buffer, runs four analysis     *)
(* passes of 31 sixteen-sample windows, keeps a per-bin average in         *)
(* avg_fft_mag, copies the averages into writebuf and writes them to the   *)
(* non-volatile store, waiting for the write_done callback.                *)
(***************************************************************************)
EXTENDS Integers, Sequences, FiniteSets, TLC

(***************************************************************************)
(* Program constants.                                                      *)
(***************************************************************************)
adc_length == 500          \* int adc_length = 500
WindowLen == 16            \* int fft_buf[16]; k*16, i % 16
NumBins == 8               \* int fft_mag[8]; float avg_fft_mag[8]
FirstBin == 3              \* for (l=3; l<8; l++)
NumAcq == 4                \* for (i=0; i<4; i++)
NumPasses == 4             \* for (j=0; j<4; j++)
SizeofFloat == 4           \* sizeof(float) on the 32-bit target
flash_len == SizeofFloat * NumBins      \* int flash_len = sizeof(float)*8
WriteOffset == 0           \* nonvolatile_storage_internal_write(0, ...)
WriteLength == 2000        \* nonvolatile_storage_internal_write(..., 2000)

(***************************************************************************)
(* Bounds of the model.                                                    *)
(***************************************************************************)
MaxCycles == 2             \* the cycle counter saturates here
MaxAmp == 2                \* largest sample amplitude the ADC delivers

Bins == 0 .. (NumBins - 1)
Tracked == FirstBin .. (NumBins - 1)

(***************************************************************************)
(* float: a binary32 value is NaN, +inf, -inf or a finite rational         *)
(* num/den in lowest terms (den > 0).  One NaN stands for all NaNs.  The   *)
(* finite values that main can hold are integers, so the rounding of       *)
(* binary32 never shows in a reachable state; finite results are exact.    *)
(***************************************************************************)
RECURSIVE Gcd(_, _)
Gcd(a, b) == IF b = 0 THEN a ELSE Gcd(b, a % b)

Abs(x) == IF x < 0 THEN -x ELSE x

NaN == [cls |-> "nan", num |-> 0, den |-> 1]
PosInf == [cls |-> "inf", num |-> 1, den |-> 1]
NegInf == [cls |-> "inf", num |-> -1, den |-> 1]

Fin(n, d) ==
  LET g == Gcd(Abs(n), d)
  IN  IF n = 0 THEN [cls |-> "fin", num |-> 0, den |-> 1]
      ELSE [cls |-> "fin", num |-> n \div g, den |-> d \div g]

\* (float)(new_val)
IntToFloat(n) == Fin(n, 1)

Sign(x) == IF x.num > 0 THEN 1 ELSE IF x.num < 0 THEN -1 ELSE 0

\* a + b in IEEE 754 arithmetic
FAdd(a, b) ==
  IF a.cls = "nan" \/ b.cls = "nan" THEN NaN
  ELSE IF a.cls = "inf" /\ b.cls = "inf"
       THEN IF a.num = b.num THEN a ELSE NaN
  ELSE IF a.cls = "inf" THEN a
  ELSE IF b.cls = "inf" THEN b
  ELSE Fin(a.num * b.den + b.num * a.den, a.den * b.den)

FNeg(a) == IF a.cls = "nan" THEN NaN ELSE [a EXCEPT !.num = -a.num]

\* a - b in IEEE 754 arithmetic
FSub(a, b) == FAdd(a, FNeg(b))

\* a / n in IEEE 754 arithmetic, n an int converted to float (n >= 0 here)
FDivInt(a, n) ==
  IF a.cls = "nan" THEN NaN
  ELSE IF n = 0
       THEN IF a.cls = "inf" THEN a
            ELSE IF Sign(a) = 0 THEN NaN        \* 0/0
            ELSE IF Sign(a) > 0 THEN PosInf ELSE NegInf
  ELSE IF a.cls = "inf" THEN (IF n > 0 THEN a ELSE FNeg(a))
  ELSE IF n > 0 THEN Fin(a.num, a.den * n) ELSE Fin(-a.num, a.den * (-n))

\* float movingAvg(float prev_avg, int num_samples, int new_val)
movingAvg(prev_avg, num_samples, new_val) ==
  FAdd(prev_avg, FDivInt(FSub(IntToFloat(new_val), prev_avg), num_samples))

(***************************************************************************)
(* The object representation of a float: four bytes, little-endian         *)
(* binary32 (sign, 8-bit biased exponent, 23-bit fraction).  memcpy moves  *)
(* these bytes.  Values outside the normal range do not occur here.        *)
(***************************************************************************)
RECURSIVE Pow2(_)
Pow2(n) == IF n = 0 THEN 1 ELSE 2 * Pow2(n - 1)

\* floor(log2(n/d)) for n, d > 0
RECURSIVE Log2Floor(_, _)
Log2Floor(n, d) ==
  IF n >= 2 * d THEN 1 + Log2Floor(n, 2 * d)
  ELSE IF n < d THEN Log2Floor(2 * n, d) - 1
  ELSE 0

\* the first cnt fraction bits of (acc + r/d), r < d, and the remainder left
RECURSIVE FracBits(_, _, _, _)
FracBits(r, d, cnt, acc) ==
  IF cnt = 0 THEN [sig |-> acc, rem |-> r]
  ELSE IF 2 * r >= d THEN FracBits(2 * r - d, d, cnt - 1, 2 * acc + 1)
  ELSE FracBits(2 * r, d, cnt - 1, 2 * acc)

\* the one element of a singleton set
Only(S) == CHOOSE x \in S : TRUE

\* numerator and denominator scaled by 2^-e, so that 1 <= sn / sd < 2
Scale(n, d, e) ==
  << IF e < 0 THEN n * Pow2(-e) ELSE n, IF e > 0 THEN d * Pow2(e) ELSE d >>

\* round the 24-bit significand fb to nearest, ties to even
RoundFields(num, e, sd, fb) ==
  LET up == 2 * fb.rem > sd \/ (2 * fb.rem = sd /\ fb.sig % 2 = 1)
      sig == IF up THEN fb.sig + 1 ELSE fb.sig
      carry == sig = Pow2(24)
  IN  [sgn |-> IF num < 0 THEN 1 ELSE 0,
       bexp |-> (IF carry THEN e + 1 ELSE e) + 127,
       frac |-> IF carry THEN 0 ELSE sig - Pow2(23)]

\* sign, biased exponent and fraction of a finite nonzero value, rounded to
\* nearest, ties to even
FloatFields(f) ==
  Only({ Only({ Only({ RoundFields(f.num, e, s[2], fb) :
                       fb \in {FracBits(s[1] - s[2], s[2], 23, 1)} }) :
                s \in {Scale(Abs(f.num), f.den, e)} }) :
         e \in {Log2Floor(Abs(f.num), f.den)} })

FieldsBytes(sgn, bexp, frac) ==
  << frac % 256,
     (frac \div 256) % 256,
     (bexp % 2) * 128 + frac \div 65536,
     sgn * 128 + bexp \div 2 >>

\* the four bytes of a float in memory
FloatBytes(f) ==
  IF f.cls = "nan" THEN FieldsBytes(0, 255, Pow2(22))
  ELSE IF f.cls = "inf" THEN FieldsBytes(IF f.num < 0 THEN 1 ELSE 0, 255, 0)
  ELSE IF f.num = 0 THEN FieldsBytes(0, 0, 0)
  ELSE LET ff == FloatFields(f) IN FieldsBytes(ff.sgn, ff.bexp, ff.frac)

\* strip the trailing zero bits of significand m while the exponent x < 0
RECURSIVE Reduce(_, _)
Reduce(m, x) ==
  IF x < 0 /\ m % 2 = 0 THEN Reduce(m \div 2, x + 1) ELSE [m |-> m, x |-> x]

\* the float that four bytes in memory hold
BytesFloat(b) ==
  LET sgn == b[4] \div 128
      bexp == (b[4] % 128) * 2 + b[3] \div 128
      frac == (b[3] % 128) * 65536 + b[2] * 256 + b[1]
      r == Reduce(Pow2(23) + frac, bexp - 150)
      mag == IF r.x >= 0 THEN Fin(r.m * Pow2(r.x), 1) ELSE Fin(r.m, Pow2(-r.x))
  IN  IF bexp = 255 THEN (IF frac # 0 THEN NaN
                          ELSE IF sgn = 1 THEN NegInf ELSE PosInf)
      ELSE IF bexp = 0 THEN Fin(0, 1)
      ELSE IF sgn = 1 THEN FNeg(mag) ELSE mag

\* the bytes of cnt consecutive floats of array a starting at index first
RECURSIVE ArrayBytes(_, _, _)
ArrayBytes(a, first, cnt) ==
  IF cnt = 0 THEN << >>
  ELSE FloatBytes(a[first]) \o ArrayBytes(a, first + 1, cnt - 1)

(***************************************************************************)
(* The environment: what the ADC delivers and what the transform computes. *)
(***************************************************************************)
Shapes == {"square", "burst"}
Signals == [shape : Shapes, amp : 0 .. MaxAmp]

\* the adc_length samples of one acquisition of signal s (uint16_t values)
Samples(s) ==
  [x \in 0 .. (adc_length - 1) |->
     IF x % 4 < 2 /\ (s.shape = "square" \/ x < adc_length \div 2)
     THEN s.amp ELSE 0]

Buffers == {Samples(s) : s \in Signals}

\* coefficient n of the reference wave of bin l
Wave(l, n) == IF ((l * n) \div (WindowLen \div 2)) % 2 = 0 THEN 1 ELSE -1

\* correlation of the WindowLen samples of window w with the wave of bin l
Correlate(w, l) ==
    w[0] * Wave(l, 0) + w[1] * Wave(l, 1) + w[2] * Wave(l, 2)
  + w[3] * Wave(l, 3) + w[4] * Wave(l, 4) + w[5] * Wave(l, 5)
  + w[6] * Wave(l, 6) + w[7] * Wave(l, 7) + w[8] * Wave(l, 8)
  + w[9] * Wave(l, 9) + w[10] * Wave(l, 10) + w[11] * Wave(l, 11)
  + w[12] * Wave(l, 12) + w[13] * Wave(l, 13) + w[14] * Wave(l, 14)
  + w[15] * Wave(l, 15)

\* fft(fft_buf, fft_mag): 8 non-negative magnitudes of a 16-sample window
fft(w) == [l \in Bins |-> Abs(Correlate(w, l))]

\* return codes of the kernel calls: 0 is success
Errors == {-2, -6}
Rets == {0} \cup Errors

\* values an uninitialised float may hold
UninitFloats == {Fin(0, 1), Fin(2, 1), NaN}
UninitLow == {Fin(0, 1), Fin(3, 1)}

VARIABLES
  pc,            \* position of main
  i, j, k,       \* int i, j, k
  ret,           \* int ret
  wdone,         \* bool wdone
  adc_buffer,    \* uint16_t adc_buffer[adc_length]
  fft_buf,       \* int fft_buf[16]
  fft_mag,       \* int fft_mag[8]
  avg_fft_mag,   \* float avg_fft_mag[8]
  writebuf,      \* uint8_t writebuf[flash_len]
  staged,        \* kernel: length of the buffer shared by write_buffer
  subscribed,    \* kernel: write_done is registered
  inflight,      \* kernel: writes accepted and not yet completed
  cbq,           \* kernel: write-done callbacks queued for delivery
  last_write,    \* kernel: offset and length of the latest write call
  console,       \* messages printed so far
  cycle,         \* history: number of the current cycle (saturating)
  acq_failed,    \* history: an acquisition of this cycle returned err < 0
  avg_start,     \* history: avg_fft_mag when this cycle began
  last_idx,      \* history: num_samples of the latest movingAvg calls
  nacq,          \* history: acquisition calls returned in this cycle
  mags,          \* history: per tracked bin, the magnitudes seen so far
  flash,         \* the storage smoke test: its main, callbacks and store
  spi            \* the SPI loopback test: its main, callback and bus

vars == << pc, i, j, k, ret, wdone, adc_buffer, fft_buf, fft_mag, avg_fft_mag,
           writebuf, staged, subscribed, inflight, cbq, last_write, console,
           cycle, acq_failed, avg_start, last_idx, nacq, mags, flash, spi >>

\* the state of the two test programs, which the spectral logger never touches
testVars == << flash, spi >>

\* the state of the spectral logger, which the test programs never touch
loggerVars == << pc, i, j, k, ret, wdone, adc_buffer, fft_buf, fft_mag,
                avg_fft_mag, writebuf, staged, subscribed, inflight, cbq,
                last_write, console, cycle, acq_failed, avg_start, last_idx,
                nacq, mags >>

mainVars == << i, j, k, ret, adc_buffer, fft_buf, fft_mag, avg_fft_mag,
               writebuf >>
kernelVars == << staged, subscribed, inflight, cbq, last_write >>
histVars == << cycle, acq_failed, avg_start, last_idx, nacq, mags >>

NoWrite == [offset |-> -1, length |-> -1]

Min(a, b) == IF a < b THEN a ELSE b

(***************************************************************************)
(* The storage smoke test and the SPI loopback test are programs of their  *)
(* own.  Each keeps its whole state in one record, so that its wdone,      *)
(* writebuf and ret do not collide with those of the spectral logger.      *)
(***************************************************************************)
len == 500                 \* int len = 500
NumRuns == 5               \* while(num_runs < 5)
FillBase == 4              \* writebuf[i] = 4+num_runs
BUF_SIZE == 200            \* #define BUF_SIZE 200
ByteMod == 256             \* uint8_t and char hold 8 bits

\* bytes an uninitialised stack buffer may hold
UninitBytes == {0, 170}

\* flash/main.c after the declarations of lines 6-7 and 22-24: both flags
\* false, readbuf and writebuf hold stack bytes rb and wb, the store is erased
FlashBoot(rb, wb) ==
  [pc |-> "read_buffer", ret |-> 0, num_runs |-> 0,
   wdone |-> FALSE, rdone |-> FALSE,
   readbuf |-> [n \in 0 .. (len - 1) |-> rb],
   writebuf |-> [n \in 0 .. (len - 1) |-> wb],
   rshared |-> FALSE, wshared |-> FALSE, rsub |-> FALSE, wsub |-> FALSE,
   winflight |-> 0, rinflight |-> 0, wcbq |-> 0, rcbq |-> 0,
   store |-> [n \in 0 .. (len - 1) |-> ByteMod - 1],
   console |-> {}, shown |-> 0,
   fills |-> << >>, reads |-> 0, code |-> 0]

\* part_001 before main runs: the globals rbuf and wbuf are zero, toggle is
\* true, nothing is on the bus, LED 0 is off, no callback is active
SpiBoot ==
  [pc |-> "fill",
   rbuf |-> [n \in 0 .. (BUF_SIZE - 1) |-> 0],
   wbuf |-> [n \in 0 .. (BUF_SIZE - 1) |-> 0],
   toggle |-> TRUE, led0 |-> FALSE,
   inflight |-> 0, cbq |-> 0, depth |-> 0, console |-> {}]

\* main, lines 21-33: locals declared; arrays hold whatever the stack held
LoggerInit ==
  /\ pc = "write_buffer"
  /\ i = 0 /\ j = 0 /\ k = 0
  /\ ret = 0
  /\ wdone = FALSE
  /\ adc_buffer \in Buffers
  /\ fft_buf = [n \in 0 .. (WindowLen - 1) |-> 0]
  /\ fft_mag = [l \in Bins |-> 0]
  /\ \E a \in UninitLow, b \in UninitFloats :
       avg_fft_mag = [l \in Bins |-> IF l < FirstBin THEN a ELSE b]
  /\ writebuf = [n \in 1 .. flash_len |-> 0]
  /\ staged = 0
  /\ subscribed = FALSE
  /\ inflight = 0
  /\ cbq = 0
  /\ last_write = NoWrite
  /\ console = {}
  /\ cycle = 0
  /\ acq_failed = FALSE
  /\ avg_start = avg_fft_mag
  /\ last_idx = -1
  /\ nacq = 0
  /\ mags = [l \in Tracked |-> {}]

\* the spectral logger starts; the two test programs are not running
Init ==
  /\ LoggerInit
  /\ flash = FlashBoot(0, 0)
  /\ spi = SpiBoot

\* the top of while(true): i = 0 of the acquisition loop
BeginCycle ==
  /\ pc' = "adc"
  /\ i' = 0
  /\ cycle' = Min(cycle + 1, MaxCycles)
  /\ acq_failed' = FALSE
  /\ avg_start' = avg_fft_mag
  /\ nacq' = 0

\* ret = nonvolatile_storage_internal_write_buffer(writebuf, flash_len)
WriteBuffer ==
  /\ pc = "write_buffer"
  /\ UNCHANGED testVars
  /\ \E r \in Rets :
       /\ ret' = r
       /\ staged' = IF r = 0 THEN flash_len ELSE staged
       /\ console' = IF r # 0 THEN console \cup {"Write buffer error"}
                     ELSE console
  /\ pc' = "subscribe"
  /\ UNCHANGED << i, j, k, wdone, adc_buffer, fft_buf, fft_mag, avg_fft_mag,
                  writebuf, subscribed, inflight, cbq, last_write >>
  /\ UNCHANGED histVars

\* ret = nonvolatile_storage_internal_write_done_subscribe(write_done, NULL)
Subscribe ==
  /\ pc = "subscribe"
  /\ UNCHANGED testVars
  /\ \E r \in Rets :
       /\ ret' = r
       /\ subscribed' = (r = 0)
       /\ console' = IF r # 0
                     THEN console \cup {"ERROR setting write done callback"}
                     ELSE console
  /\ BeginCycle
  /\ UNCHANGED << j, k, wdone, adc_buffer, fft_buf, fft_mag, avg_fft_mag,
                  writebuf, staged, inflight, cbq, last_write, last_idx, mags >>

\* adc_sample_buffer_sync(channel, freq, adc_buffer, adc_length) is entered:
\* the call starts the sampling and yields until it is over
AdcCall ==
  /\ pc = "adc"
  /\ UNCHANGED testVars
  /\ i < NumAcq
  /\ pc' = "adc_wait"
  /\ UNCHANGED << wdone, console >>
  /\ UNCHANGED mainVars
  /\ UNCHANGED kernelVars
  /\ UNCHANGED histVars

\* AfterAcq starting the transform stage after every acquisition call
AfterAcq_TransformEach ==
  /\ i' = i + 1
  /\ pc' = "fft" /\ j' = 0 /\ k' = 0

\* the loop control after one acquisition call: i++, then i < 4 or the
\* transform stage with j = 0, k = 0
AfterAcq ==
  /\ i' = i + 1
  /\ IF i + 1 < NumAcq
     THEN pc' = "adc" /\ UNCHANGED << j, k >>
     ELSE pc' = "fft" /\ j' = 0 /\ k' = 0

\* AdcReturn with a failed acquisition skipping the transform stage
AdcReturn_SkipOnError ==
  /\ pc = "adc_wait"
  /\ UNCHANGED testVars
  /\ \/ /\ adc_buffer' \in Buffers
        /\ UNCHANGED << console, acq_failed >>
        /\ AfterAcq
     \/ /\ adc_buffer' \in Buffers \cup {adc_buffer}
        /\ console' = console \cup {"Error sampling ADC"}
        /\ acq_failed' = TRUE
        /\ i' = i + 1
        /\ IF i + 1 < NumAcq THEN pc' = "adc" ELSE pc' = "memcpy"
        /\ UNCHANGED << j, k >>
  /\ UNCHANGED << ret, wdone, fft_buf, fft_mag, avg_fft_mag, writebuf >>
  /\ UNCHANGED kernelVars
  /\ nacq' = nacq + 1
  /\ UNCHANGED << cycle, avg_start, last_idx, mags >>

\* adc_sample_buffer_sync returns err: on success the buffer holds the new
\* samples, on failure its contents are undefined; err < 0 is printed
AdcReturn ==
  /\ pc = "adc_wait"
  /\ UNCHANGED testVars
  /\ \/ /\ adc_buffer' \in Buffers
        /\ UNCHANGED << console, acq_failed >>
     \/ /\ adc_buffer' \in Buffers \cup {adc_buffer}
        /\ console' = console \cup {"Error sampling ADC"}
        /\ acq_failed' = TRUE
  /\ AfterAcq
  /\ UNCHANGED << ret, wdone, fft_buf, fft_mag, avg_fft_mag, writebuf >>
  /\ UNCHANGED kernelVars
  /\ nacq' = nacq + 1
  /\ UNCHANGED << cycle, avg_start, last_idx, mags >>

\* CopyWindow reading one sample further on: fft_buf[i % 16] = adc_buffer[i+1]
RECURSIVE CopyWindow_Shifted(_, _, _, _)
CopyWindow_Shifted(fb, ab, x, end) ==
  IF x < end
  THEN CopyWindow_Shifted([fb EXCEPT ![x % WindowLen] = ab[x + 1]], ab,
                          x + 1, end)
  ELSE fb

\* for (i=k*16; i<(k+1)*16; i++) fft_buf[i % 16] = adc_buffer[i];
RECURSIVE CopyWindow(_, _, _, _)
CopyWindow(fb, ab, x, end) ==
  IF x < end
  THEN CopyWindow([fb EXCEPT ![x % WindowLen] = ab[x]], ab, x + 1, end)
  ELSE fb

\* UpdateAverages with the bin loop starting at 0
UpdateAverages_AllBins(avg, kk, mag) ==
  [l \in Bins |-> movingAvg(avg[l], kk, mag[l])]

\* for (l=3; l<8; l++) avg_fft_mag[l] = movingAvg(avg_fft_mag[l], k, fft_mag[l]);
UpdateAverages(avg, kk, mag) ==
  [l \in Bins |-> IF l \in Tracked THEN movingAvg(avg[l], kk, mag[l])
                  ELSE avg[l]]

\* one iteration of the k loop: copy window k, transform it, update the
\* averages of bins 3..7, k++
FftWindow ==
  /\ pc = "fft"
  /\ UNCHANGED testVars
  /\ j < NumPasses
  /\ k < adc_length \div WindowLen
  /\ fft_buf' = CopyWindow(fft_buf, adc_buffer, k * WindowLen,
                           (k + 1) * WindowLen)
  /\ i' = (k + 1) * WindowLen
  /\ fft_mag' = fft(fft_buf')
  /\ avg_fft_mag' = UpdateAverages(avg_fft_mag, k, fft_mag')
  /\ k' = k + 1
  /\ last_idx' = k
  /\ mags' = [l \in Tracked |-> mags[l] \cup {fft_mag'[l]}]
  /\ UNCHANGED << pc, j, ret, wdone, adc_buffer, writebuf, console >>
  /\ UNCHANGED kernelVars
  /\ UNCHANGED << cycle, acq_failed, avg_start, nacq >>

\* NextPass leaving the transform stage after the first pass
NextPass_OnePass ==
  /\ pc = "fft"
  /\ UNCHANGED testVars
  /\ j < NumPasses
  /\ k >= adc_length \div WindowLen
  /\ j' = j + 1
  /\ k' = k /\ pc' = "memcpy"
  /\ UNCHANGED << i, ret, wdone, adc_buffer, fft_buf, fft_mag, avg_fft_mag,
                  writebuf, console >>
  /\ UNCHANGED kernelVars
  /\ UNCHANGED histVars

\* the k loop is over: j++, then the next pass with k = 0 or the persist step
NextPass ==
  /\ pc = "fft"
  /\ UNCHANGED testVars
  /\ j < NumPasses
  /\ k >= adc_length \div WindowLen
  /\ j' = j + 1
  /\ IF j + 1 < NumPasses
     THEN k' = 0 /\ pc' = "fft"
     ELSE k' = k /\ pc' = "memcpy"
  /\ UNCHANGED << i, ret, wdone, adc_buffer, fft_buf, fft_mag, avg_fft_mag,
                  writebuf, console >>
  /\ UNCHANGED kernelVars
  /\ UNCHANGED histVars

\* Memcpy copying from &avg_fft_mag[3], the first tracked bin
Memcpy_FromFirstTracked ==
  /\ pc = "memcpy"
  /\ UNCHANGED testVars
  /\ writebuf' = ArrayBytes(avg_fft_mag, FirstBin, NumBins - FirstBin)
                   \o SubSeq(writebuf, (NumBins - FirstBin) * SizeofFloat + 1,
                             flash_len)
  /\ pc' = "clear"
  /\ UNCHANGED << i, j, k, ret, wdone, adc_buffer, fft_buf, fft_mag,
                  avg_fft_mag, console >>
  /\ UNCHANGED kernelVars
  /\ UNCHANGED histVars

\* memcpy(writebuf, (void*)&avg_fft_mag[0], flash_len)
Memcpy ==
  /\ pc = "memcpy"
  /\ UNCHANGED testVars
  /\ writebuf' = SubSeq(ArrayBytes(avg_fft_mag, 0, NumBins), 1, flash_len)
  /\ pc' = "clear"
  /\ UNCHANGED << i, j, k, ret, wdone, adc_buffer, fft_buf, fft_mag,
                  avg_fft_mag, console >>
  /\ UNCHANGED kernelVars
  /\ UNCHANGED histVars

\* ClearFlag without the assignment
ClearFlag_Omitted ==
  /\ pc = "clear"
  /\ UNCHANGED testVars
  /\ pc' = "write"
  /\ UNCHANGED << wdone, console >>
  /\ UNCHANGED mainVars
  /\ UNCHANGED kernelVars
  /\ UNCHANGED histVars

\* wdone = false
ClearFlag ==
  /\ pc = "clear"
  /\ UNCHANGED testVars
  /\ wdone' = FALSE
  /\ pc' = "write"
  /\ UNCHANGED console
  /\ UNCHANGED mainVars
  /\ UNCHANGED kernelVars
  /\ UNCHANGED histVars

\* WriteIssue with the given position after an accepted write (okpc) and
\* after a refused one (failpc)
WriteIssueTo(okpc, failpc) ==
  /\ pc = "write"
  /\ UNCHANGED testVars
  /\ last_write' = [offset |-> WriteOffset, length |-> WriteLength]
  /\ \E r \in Rets :
       /\ ret' = r
       /\ IF r = 0
          THEN /\ inflight' = inflight + 1
               /\ pc' = okpc
               /\ UNCHANGED console
          ELSE /\ console' = console \cup {"ERROR calling write"}
               /\ pc' = failpc
               /\ UNCHANGED inflight
  /\ UNCHANGED << i, j, k, wdone, adc_buffer, fft_buf, fft_mag, avg_fft_mag,
                  writebuf, staged, subscribed, cbq >>
  /\ UNCHANGED histVars

\* WriteIssue without the wait for completion
WriteIssue_NoWait == WriteIssueTo("delay", "returned")

\* WriteIssue that logs a refused write and goes on to the pacing delay
WriteIssue_Continue == WriteIssueTo("wait", "delay")

\* WriteIssue without the return: a refused write falls through to the wait
WriteIssue_NoReturn == WriteIssueTo("wait", "wait")

\* ret = nonvolatile_storage_internal_write(0, 2000); a nonzero ret is
\* printed and returned from main
WriteIssue ==
  /\ pc = "write"
  /\ UNCHANGED testVars
  /\ last_write' = [offset |-> WriteOffset, length |-> WriteLength]
  /\ \E r \in Rets :
       /\ ret' = r
       /\ IF r = 0
          THEN /\ inflight' = inflight + 1
               /\ pc' = "wait"
               /\ UNCHANGED console
          ELSE /\ console' = console \cup {"ERROR calling write"}
               /\ pc' = "returned"
               /\ UNCHANGED inflight
  /\ UNCHANGED << i, j, k, wdone, adc_buffer, fft_buf, fft_mag, avg_fft_mag,
                  writebuf, staged, subscribed, cbq >>
  /\ UNCHANGED histVars

\* yield_for(cond) hands control to the dispatcher until *cond is true
yield_for(cond) == cond

\* WaitReturn that yields once and returns whatever the flag holds
WaitReturn_NoCheck ==
  /\ pc = "wait"
  /\ UNCHANGED testVars
  /\ pc' = "delay"
  /\ UNCHANGED << wdone, console >>
  /\ UNCHANGED mainVars
  /\ UNCHANGED kernelVars
  /\ UNCHANGED histVars

\* yield_for(&wdone) returns
WaitReturn ==
  /\ pc = "wait"
  /\ UNCHANGED testVars
  /\ yield_for(wdone)
  /\ pc' = "delay"
  /\ UNCHANGED << wdone, console >>
  /\ UNCHANGED mainVars
  /\ UNCHANGED kernelVars
  /\ UNCHANGED histVars

\* delay_ms(500) is entered: the call yields until the timer fires
DelayCall ==
  /\ pc = "delay"
  /\ UNCHANGED testVars
  /\ pc' = "delay_wait"
  /\ UNCHANGED << wdone, console >>
  /\ UNCHANGED mainVars
  /\ UNCHANGED kernelVars
  /\ UNCHANGED histVars

\* delay_ms(500) returns: the next iteration of while(true) begins
DelayReturn ==
  /\ pc = "delay_wait"
  /\ UNCHANGED testVars
  /\ BeginCycle
  /\ UNCHANGED << j, k, ret, wdone, adc_buffer, fft_buf, fft_mag, avg_fft_mag,
                  writebuf, console, last_idx, mags >>
  /\ UNCHANGED kernelVars

\* the store finishes an accepted write and queues the completion callback
WriteComplete ==
  /\ inflight > 0
  /\ UNCHANGED testVars
  /\ inflight' = inflight - 1
  /\ cbq' = IF subscribed THEN cbq + 1 ELSE cbq
  /\ UNCHANGED << pc, wdone, console, staged, subscribed, last_write >>
  /\ UNCHANGED mainVars
  /\ UNCHANGED histVars

\* main has yielded to the dispatcher
Yielded == pc \in {"adc_wait", "wait", "delay_wait"}

\* write_done that also clears the write buffer
write_done_ClearsBuffer ==
  /\ Yielded
  /\ UNCHANGED testVars
  /\ cbq > 0
  /\ cbq' = cbq - 1
  /\ wdone' = TRUE
  /\ writebuf' = [n \in 1 .. flash_len |-> 0]
  /\ UNCHANGED << pc, console, staged, subscribed, inflight, last_write >>
  /\ UNCHANGED << i, j, k, ret, adc_buffer, fft_buf, fft_mag, avg_fft_mag >>
  /\ UNCHANGED histVars

\* write_done that leaves the flag alone
write_done_NoSet ==
  /\ Yielded
  /\ UNCHANGED testVars
  /\ cbq > 0
  /\ cbq' = cbq - 1
  /\ UNCHANGED << pc, wdone, console, staged, subscribed, inflight,
                  last_write >>
  /\ UNCHANGED mainVars
  /\ UNCHANGED histVars

\* static void write_done(...): runs when the dispatcher delivers a queued
\* completion while main has yielded
write_done ==
  /\ Yielded
  /\ UNCHANGED testVars
  /\ cbq > 0
  /\ cbq' = cbq - 1
  /\ wdone' = TRUE
  /\ UNCHANGED << pc, console, staged, subscribed, inflight, last_write >>
  /\ UNCHANGED mainVars
  /\ UNCHANGED histVars

Next ==
  \/ WriteBuffer
  \/ Subscribe
  \/ AdcCall
  \/ AdcReturn
  \/ FftWindow
  \/ NextPass
  \/ Memcpy
  \/ ClearFlag
  \/ WriteIssue
  \/ WaitReturn
  \/ DelayCall
  \/ DelayReturn
  \/ WriteComplete
  \/ write_done

Spec == Init /\ [][Next]_vars

\* writes accepted whose completion callback has not run yet
Outstanding == inflight + cbq

TypeOK ==
  /\ pc \in {"write_buffer", "subscribe", "adc", "adc_wait", "fft", "memcpy",
             "clear", "write", "wait", "delay", "delay_wait", "returned"}
  /\ i \in 0 .. adc_length
  /\ j \in 0 .. NumPasses
  /\ k \in 0 .. (adc_length \div WindowLen)
  /\ ret \in Rets
  /\ wdone \in BOOLEAN
  /\ Len(writebuf) = flash_len
  /\ cycle \in 0 .. MaxCycles

AfterMemcpy == {"clear", "write", "wait", "delay", "delay_wait", "returned"}

\* the record as the write sees it: the bytes of writebuf
Record == writebuf

\* the float stored in slot l of the record
RecordValue(l) ==
  BytesFloat(SubSeq(Record, l * SizeofFloat + 1, (l + 1) * SizeofFloat))

(***************************************************************************)
(* C1: at most one write to the non-volatile store is outstanding at any   *)
(* time, and when main is about to issue a write (wdone cleared or about   *)
(* to be, write not yet called) no earlier write is outstanding: its       *)
(* write_done has run.                                                     *)
(***************************************************************************)
C1_AtMostOneWrite ==
  /\ Outstanding <= 1
  /\ pc \in {"clear", "write"} => Outstanding = 0

\* the write of the second cycle is outstanding
C1_Witness == cycle >= 2 /\ pc = "wait" /\ Outstanding = 1 /\ ~wdone

(***************************************************************************)
(* C2: while main is in the pacing delay or in an acquisition call, no     *)
(* accepted write is pending, and if a write was ever issued the flag      *)
(* wdone is true: the wait returned only after the callback ran.           *)
(***************************************************************************)
C2_NoNewCycleWhilePending ==
  pc \in {"delay", "delay_wait", "adc", "adc_wait"} =>
    /\ Outstanding = 0
    /\ last_write # NoWrite => wdone

\* an acquisition of the second cycle is running after the first write
C2_Witness ==
  pc = "adc_wait" /\ cycle >= 2 /\ last_write # NoWrite /\ wdone
    /\ Outstanding = 0

(***************************************************************************)
(* C3 as stated: after a write-issue failure was logged the loop goes on,  *)
(* main has not stopped.                                                   *)
(***************************************************************************)
C3_ProceedsAfterWriteFailure ==
  "ERROR calling write" \in console => pc # "returned"

(***************************************************************************)
(* C3 amended: a write-issue failure is logged and main returns the        *)
(* nonzero code: main has stopped exactly when the failure was logged, so  *)
(* no later acquisition, write or delay follows it.                        *)
(***************************************************************************)
C3_StopsAfterWriteFailure ==
  /\ ("ERROR calling write" \in console) <=> (pc = "returned")
  /\ pc = "returned" => ret \in Errors

\* main returned on a refused write of the second cycle
C3_Witness == pc = "returned" /\ cycle >= 2 /\ ret \in Errors

(***************************************************************************)
(* C4: a step of main at the write call that gets a nonzero code logs the  *)
(* error and leaves main returned, with no write accepted; from there main *)
(* takes no step: no wait, no second write call, no delay.                 *)
(***************************************************************************)
C4_AbortWithoutRetry ==
  [][ /\ (pc = "write" /\ inflight' >= inflight /\ ret' # 0) =>
           /\ pc' = "returned"
           /\ inflight' = inflight
           /\ "ERROR calling write" \in console'
      /\ pc = "returned" =>
           /\ pc' = "returned"
           /\ last_write' = last_write
           /\ inflight' <= inflight ]_vars

\* the first write was refused with code -2 and main returned
C4_Witness ==
  pc = "returned" /\ ret = -2 /\ cycle = 1 /\ Outstanding = 0 /\ ~wdone

(***************************************************************************)
(* C5 as stated: in a cycle with a failed acquisition the record written   *)
(* holds the averages that existed when the cycle began.                   *)
(***************************************************************************)
C5_StaleRecordOnError ==
  (acq_failed /\ pc = "wait") =>
    Record = SubSeq(ArrayBytes(avg_start, 0, NumBins), 1, flash_len)

(***************************************************************************)
(* C5 amended: a failed acquisition is logged and main does not stop for   *)
(* it; the cycle still runs its analysis passes to the end over the buffer *)
(* as it is and reaches the write, and the record holds the averages as    *)
(* those passes left them.                                                 *)
(***************************************************************************)
C5_UpdatedRecordOnError ==
  /\ acq_failed => "Error sampling ADC" \in console
  /\ (acq_failed /\ pc = "returned") => "ERROR calling write" \in console
  /\ (acq_failed /\ pc \in AfterMemcpy) =>
       /\ j = NumPasses
       /\ k = adc_length \div WindowLen
       /\ last_idx = k - 1
       /\ Record = SubSeq(ArrayBytes(avg_fft_mag, 0, NumBins), 1, flash_len)

\* a cycle with a failed acquisition has issued a write whose record differs
\* from the averages the cycle began with
C5_Witness ==
  /\ acq_failed
  /\ pc = "wait"
  /\ Record # SubSeq(ArrayBytes(avg_start, 0, NumBins), 1, flash_len)

(***************************************************************************)
(* C6: right after the update for the first window of a pass (k = 0 was    *)
(* passed as num_samples) every tracked average equals the new magnitude.  *)
(***************************************************************************)
C6_FirstObservationLaw ==
  (pc = "fft" /\ last_idx = 0 /\ k = 1) =>
    \A l \in Tracked : avg_fft_mag[l] = IntToFloat(fft_mag[l])

(***************************************************************************)
(* C7: a tracked bin whose magnitude has been the same value v in every    *)
(* window so far has the running average v.                                *)
(***************************************************************************)
C7_ConstantInput ==
  \A l \in Tracked :
    \A v \in mags[l] : mags[l] = {v} => avg_fft_mag[l] = IntToFloat(v)

(***************************************************************************)
(* C8: every write call targets offset 0 with the length of the staged     *)
(* record, flash_len, which does not exceed writebuf.                      *)
(***************************************************************************)
C8_WriteLength ==
  last_write # NoWrite =>
    /\ last_write.offset = 0
    /\ last_write.length = flash_len
    /\ last_write.length <= Len(writebuf)

(***************************************************************************)
(* C9 as stated: the record is exactly the averages of bins 3..7 in        *)
(* ascending order, 4 bytes each.                                          *)
(***************************************************************************)
C9_TrackedOnlyRecord ==
  pc \in AfterMemcpy =>
    Record = ArrayBytes(avg_fft_mag, FirstBin, NumBins - FirstBin)

(***************************************************************************)
(* C9 amended: the record is all 8 entries of avg_fft_mag, bins 0..7 in    *)
(* ascending order, 4 bytes each, 32 bytes; it includes the entries of the *)
(* untracked bins 0..2 and no counts, and decoding slot l returns          *)
(* avg_fft_mag[l] unchanged.                                               *)
(***************************************************************************)
C9_WholeArrayRecord ==
  pc \in AfterMemcpy =>
    /\ Len(Record) = NumBins * SizeofFloat
    /\ \A l \in Bins : RecordValue(l) = avg_fft_mag[l]

\* a record is written whose slot 0 holds the value 3.0 of untracked bin 0
\* and whose slot 3 holds the average of tracked bin 3
C9_Witness ==
  /\ pc = "wait"
  /\ RecordValue(0) = Fin(3, 1)
  /\ RecordValue(FirstBin) = avg_fft_mag[FirstBin]
  /\ avg_fft_mag[FirstBin] # Fin(3, 1)

(***************************************************************************)
(* C10: every update uses an observation index one greater than the        *)
(* previous update's, within a pass, across passes and across cycles.      *)
(***************************************************************************)
C10_IndexIncrements ==
  [][last_idx' # last_idx => last_idx' = last_idx + 1]_vars

(***************************************************************************)
(* C11: no step of the driver changes the average entries of bins 0, 1     *)
(* and 2; the averages change only in a window step of the transform       *)
(* stage, so bins 0..2 hold in every state the value the cycle began with. *)
(***************************************************************************)
C11_UntrackedBinsUntouched ==
  [][ /\ \A l \in Bins \ Tracked : avg_fft_mag'[l] = avg_fft_mag[l]
      /\ avg_fft_mag' # avg_fft_mag => (pc = "fft" /\ k' = k + 1) ]_vars

\* a window step has changed tracked bin 3 while bin 0 still holds 3.0
C11_Witness ==
  /\ pc = "fft"
  /\ k >= 1
  /\ avg_fft_mag[FirstBin] # avg_start[FirstBin]
  /\ avg_fft_mag[0] = Fin(3, 1)
  /\ avg_start[0] = Fin(3, 1)

\* the stage of the cycle that position p belongs to
Stage(p) ==
  CASE p \in {"write_buffer", "subscribe"} -> "Setup"
    [] p \in {"adc", "adc_wait"} -> "Acquiring"
    [] p = "fft" -> "Transforming"
    [] p \in {"memcpy", "clear", "write", "wait"} -> "Persisting"
    [] p \in {"delay", "delay_wait"} -> "Pacing"
    [] OTHER -> "Failed"

StageOrder ==
  { <<"Setup", "Acquiring">>, <<"Acquiring", "Transforming">>,
    <<"Transforming", "Persisting">>, <<"Persisting", "Pacing">>,
    <<"Persisting", "Failed">>, <<"Pacing", "Acquiring">> }

(***************************************************************************)
(* C12: the stages follow each other in the order acquire, transform,      *)
(* persist, pace, acquire: the transform stage is entered only when the    *)
(* cycle's 4 acquisition calls have returned, the persist stage only after *)
(* the last window of the last pass (and the averages do not change in     *)
(* it), the pacing stage only with the completion observed, and a new      *)
(* cycle starts at the first acquisition call.                             *)
(***************************************************************************)
C12_StageOrder ==
  [][ /\ Stage(pc') # Stage(pc) =>
           /\ <<Stage(pc), Stage(pc')>> \in StageOrder
           /\ Stage(pc') = "Transforming" => nacq' = NumAcq
           /\ Stage(pc') = "Persisting" =>
                /\ j' = NumPasses
                /\ k' = adc_length \div WindowLen
                /\ last_idx' = k' - 1
           /\ Stage(pc') = "Pacing" => (wdone /\ Outstanding = 0)
           /\ Stage(pc') = "Acquiring" => (pc' = "adc" /\ i' = 0 /\ nacq' = 0)
      /\ Stage(pc) = "Persisting" => avg_fft_mag' = avg_fft_mag ]_vars

\* the second cycle starts at its first acquisition after a full first cycle
C12_Witness ==
  /\ cycle >= 2
  /\ pc = "adc"
  /\ i = 0
  /\ nacq = 0
  /\ j = NumPasses
  /\ wdone

(***************************************************************************)
(* C14: a step that delivers the completion callback sets wdone and leaves *)
(* the averages, the sample buffer and the write buffer alone; these       *)
(* change only in main's own steps: the averages in a window step, the     *)
(* write buffer in the memcpy, the sample buffer in an acquisition call.   *)
(***************************************************************************)
C14_CallbackTouchesOnlyFlag ==
  [][ /\ cbq' < cbq =>
           /\ wdone'
           /\ UNCHANGED << avg_fft_mag, adc_buffer, writebuf, pc >>
      /\ avg_fft_mag' # avg_fft_mag => (pc = "fft" /\ cbq' = cbq)
      /\ writebuf' # writebuf => (pc = "memcpy" /\ cbq' = cbq)
      /\ adc_buffer' # adc_buffer => (pc = "adc_wait" /\ cbq' = cbq) ]_vars

\* the callback has been delivered during the wait of the second cycle and
\* the record still holds the averages
C14_Witness ==
  /\ pc = "wait"
  /\ cycle >= 2
  /\ wdone
  /\ Outstanding = 0
  /\ Record = SubSeq(ArrayBytes(avg_fft_mag, 0, NumBins), 1, flash_len)

C16_Windows ==
  /\ adc_length \div WindowLen = 31
  /\ DOMAIN fft_buf = 0 .. (WindowLen - 1)
  /\ (pc \in {"fft", "memcpy"} /\ k >= 1) =>
       /\ last_idx = k - 1
       /\ k <= 31
       /\ i = WindowLen * k
       /\ i <= adc_length - 4
       /\ \A n \in 0 .. (WindowLen - 1) :
            /\ WindowLen * (k - 1) + n \in DOMAIN adc_buffer
            /\ fft_buf[n] = adc_buffer[WindowLen * (k - 1) + n]
  /\ (pc = "fft" /\ k = 0 /\ j >= 1) => last_idx = 30
  /\ pc = "memcpy" => k = 31

\* the last window of a pass holds the samples 480..495 of a nonzero signal
C16_Witness ==
  /\ pc = "fft"
  /\ k = 31
  /\ i = 496
  /\ fft_buf[0] = adc_buffer[480]
  /\ fft_buf[0] >= 1
  /\ fft_buf[15] = adc_buffer[495]

(***************************************************************************)
(* C17: wdone is false when the write is issued; it goes from true to      *)
(* false only in main's clearing step before the write, and from false to  *)
(* true only when a callback is delivered; no completion is outstanding    *)
(* when the write is issued, so a true flag seen by the wait means the     *)
(* callback of this cycle's write has run.                                 *)
(***************************************************************************)
C17_FlagBelongsToCurrentWrite ==
  /\ [](pc = "write" => (~wdone /\ Outstanding = 0))
  /\ []((pc = "wait" /\ wdone) => Outstanding = 0)
  /\ [][ /\ (wdone /\ ~wdone') => (pc = "clear" /\ pc' = "write")
         /\ (~wdone /\ wdone') => (cbq' = cbq - 1 /\ pc = "wait") ]_vars

\* the flag left true by the first cycle is about to be cleared
C17_Witness == pc = "clear" /\ wdone /\ cycle >= 2 /\ Outstanding = 0

(***************************************************************************)
(* The driver under the conditions of an undisturbed run: the subscription *)
(* is in place, every write issue is accepted, and every step that can be  *)
(* taken eventually is: acquisition calls and delays return, the store     *)
(* completes accepted writes and the dispatcher delivers their callbacks.  *)
(***************************************************************************)
SubscribeOk == Subscribe /\ subscribed'

WriteAccepted == WriteIssue /\ ret' = 0

LiveNext ==
  \/ WriteBuffer
  \/ SubscribeOk
  \/ AdcCall
  \/ AdcReturn
  \/ FftWindow
  \/ NextPass
  \/ Memcpy
  \/ ClearFlag
  \/ WriteAccepted
  \/ WaitReturn
  \/ DelayCall
  \/ DelayReturn
  \/ WriteComplete
  \/ write_done

LiveSpec == Init /\ [][LiveNext]_vars /\ WF_vars(LiveNext)

(***************************************************************************)
(* C13: in an undisturbed run main never returns and never stays in one    *)
(* stage forever: again and again a cycle begins, a write is issued and    *)
(* accepted, and its completion is observed.                               *)
(***************************************************************************)
C13_RunsForever ==
  /\ [](pc # "returned")
  /\ []<>(pc = "adc" /\ nacq = 0)
  /\ []<>(pc = "fft")
  /\ []<>(pc = "wait" /\ inflight = 1)
  /\ []<>(pc = "delay")

\* the write of the second cycle was accepted and completed, and main is in
\* the pacing delay again
C13_Witness ==
  pc = "delay_wait" /\ cycle >= 2 /\ ret = 0 /\ wdone /\ subscribed

(***************************************************************************)
(* The storage smoke test, apps/examples/flash/main.c.                     *)
(***************************************************************************)
\* the spectral logger is not running: its variables stay at one start state
LoggerParked ==
  /\ LoggerInit
  /\ adc_buffer = Samples([shape |-> "square", amp |-> 0])
  /\ avg_fft_mag = [l \in Bins |-> Fin(0, 1)]

FlashInit ==
  /\ LoggerParked
  /\ \E rb \in UninitBytes, wb \in UninitBytes : flash = FlashBoot(rb, wb)
  /\ spi = SpiBoot

\* a step of the storage smoke test to state f
FlashStep(f) ==
  /\ flash' = f
  /\ UNCHANGED loggerVars
  /\ UNCHANGED spi

\* the console after a call returned r: msg is printed when r is nonzero
Report(out, r, msg) == IF r # 0 THEN out \cup {msg} ELSE out

\* int ret = nonvolatile_storage_internal_read_buffer(readbuf, len)
FlashReadBuffer ==
  /\ flash.pc = "read_buffer"
  /\ \E r \in Rets :
       FlashStep([flash EXCEPT !.ret = r, !.rshared = (r = 0),
                    !.console = Report(@, r, "Read buffer error"),
                    !.pc = "read_subscribe"])

\* ret = nonvolatile_storage_internal_read_done_subscribe(read_done, NULL)
FlashReadSubscribe ==
  /\ flash.pc = "read_subscribe"
  /\ \E r \in Rets :
       FlashStep([flash EXCEPT !.ret = r, !.rsub = (r = 0),
                    !.console = Report(@, r, "ERROR setting read done callback"),
                    !.pc = "write_buffer"])

\* ret = nonvolatile_storage_internal_write_buffer(writebuf, len)
FlashWriteBuffer ==
  /\ flash.pc = "write_buffer"
  /\ \E r \in Rets :
       FlashStep([flash EXCEPT !.ret = r, !.wshared = (r = 0),
                    !.console = Report(@, r, "Write buffer error"),
                    !.pc = "write_subscribe"])

\* ret = nonvolatile_storage_internal_write_done_subscribe(write_done, NULL);
\* printf("Begin\n"); int num_runs = 0;
FlashWriteSubscribe ==
  /\ flash.pc = "write_subscribe"
  /\ \E r \in Rets :
       FlashStep([flash EXCEPT !.ret = r, !.wsub = (r = 0),
                    !.console = Report(@, r, "ERROR setting write done callback")
                                  \cup {"Begin"},
                    !.num_runs = 0,
                    !.pc = "loop"])

\* FlashFill that forgets to add num_runs
FlashFill_Constant ==
  /\ flash.pc = "loop"
  /\ flash.num_runs < NumRuns
  /\ FlashStep([flash EXCEPT
                  !.writebuf = [n \in 0 .. (len - 1) |-> FillBase % ByteMod],
                  !.pc = "clear_w"])

\* while(num_runs < 5) is entered:
\* for(int i=0; i<len; i++) writebuf[i] = 4+num_runs;
FlashFill ==
  /\ flash.pc = "loop"
  /\ flash.num_runs < NumRuns
  /\ FlashStep([flash EXCEPT
                  !.writebuf = [n \in 0 .. (len - 1) |->
                                  (FillBase + flash.num_runs) % ByteMod],
                  !.pc = "clear_w"])

\* while(num_runs < 5) is left: printf("Done\n"); main returns
FlashDone ==
  /\ flash.pc = "loop"
  /\ ~(flash.num_runs < NumRuns)
  /\ FlashStep([flash EXCEPT !.console = @ \cup {"Done"}, !.pc = "done"])

\* wdone = false;
FlashClearW ==
  /\ flash.pc = "clear_w"
  /\ FlashStep([flash EXCEPT !.wdone = FALSE, !.pc = "write"])

\* ret = nonvolatile_storage_internal_write(0, len); a nonzero ret is printed
\* and returned from main
FlashWriteIssue ==
  /\ flash.pc = "write"
  /\ \E r \in Rets :
       FlashStep(IF r = 0
                 THEN [flash EXCEPT !.ret = r, !.winflight = @ + 1,
                         !.fills = Append(@, flash.writebuf[0]),
                         !.pc = "wait_w"]
                 ELSE [flash EXCEPT !.ret = r,
                         !.console = @ \cup {"ERROR calling write"},
                         !.code = r, !.pc = "returned"])

\* FlashWaitW that yields once and goes on whatever the flag holds
FlashWaitW_NoCheck ==
  /\ flash.pc = "wait_w"
  /\ FlashStep([flash EXCEPT !.pc = "clear_r"])

\* yield_for(&wdone) returns
FlashWaitW ==
  /\ flash.pc = "wait_w"
  /\ yield_for(flash.wdone)
  /\ FlashStep([flash EXCEPT !.pc = "clear_r"])

\* rdone = false;
FlashClearR ==
  /\ flash.pc = "clear_r"
  /\ FlashStep([flash EXCEPT !.rdone = FALSE, !.pc = "read"])

\* ret = nonvolatile_storage_internal_read(0, len); a nonzero ret is printed
\* and returned from main
FlashReadIssue ==
  /\ flash.pc = "read"
  /\ \E r \in Rets :
       FlashStep(IF r = 0
                 THEN [flash EXCEPT !.ret = r, !.rinflight = @ + 1,
                         !.reads = @ + 1, !.pc = "wait_r"]
                 ELSE [flash EXCEPT !.ret = r,
                         !.console = @ \cup {"ERROR calling write"},
                         !.code = r, !.pc = "returned"])

\* yield_for(&rdone) returns
FlashWaitR ==
  /\ flash.pc = "wait_r"
  /\ yield_for(flash.rdone)
  /\ FlashStep([flash EXCEPT !.pc = "print"])

\* printf("%d ", readbuf[len]) reads one byte past the end of readbuf, so
\* the value shown is whatever lies there; then num_runs += 1
FlashPrint ==
  /\ flash.pc = "print"
  /\ \E b \in UninitBytes :
       FlashStep([flash EXCEPT !.shown = b,
                    !.console = @ \cup {"Readbuf:"},
                    !.num_runs = @ + 1,
                    !.pc = "delay"])

\* delay_ms(300) is entered: the call yields until the timer fires
FlashDelayCall ==
  /\ flash.pc = "delay"
  /\ FlashStep([flash EXCEPT !.pc = "delay_wait"])

\* delay_ms(300) returns: back to the test of while(num_runs < 5)
FlashDelayReturn ==
  /\ flash.pc = "delay_wait"
  /\ FlashStep([flash EXCEPT !.pc = "loop"])

\* the store finishes an accepted write: the shared buffer is stored and the
\* completion callback is queued
FlashWriteComplete ==
  /\ flash.winflight > 0
  /\ FlashStep([flash EXCEPT !.winflight = @ - 1,
                  !.store = IF flash.wshared THEN flash.writebuf ELSE @,
                  !.wcbq = IF flash.wsub THEN @ + 1 ELSE @])

\* the store finishes an accepted read: the stored bytes are copied into the
\* shared buffer and the completion callback is queued
FlashReadComplete ==
  /\ flash.rinflight > 0
  /\ FlashStep([flash EXCEPT !.rinflight = @ - 1,
                  !.readbuf = IF flash.rshared THEN flash.store ELSE @,
                  !.rcbq = IF flash.rsub THEN @ + 1 ELSE @])

\* main has yielded to the dispatcher
FlashYielded == flash.pc \in {"wait_w", "wait_r", "delay_wait"}

\* static void write_done(...) of flash/main.c: wdone = true
flash_write_done ==
  /\ FlashYielded
  /\ flash.wcbq > 0
  /\ FlashStep([flash EXCEPT !.wcbq = @ - 1, !.wdone = TRUE])

\* static void read_done(...): rdone = true
read_done ==
  /\ FlashYielded
  /\ flash.rcbq > 0
  /\ FlashStep([flash EXCEPT !.rcbq = @ - 1, !.rdone = TRUE])

FlashNext ==
  \/ FlashReadBuffer
  \/ FlashReadSubscribe
  \/ FlashWriteBuffer
  \/ FlashWriteSubscribe
  \/ FlashFill
  \/ FlashDone
  \/ FlashClearW
  \/ FlashWriteIssue
  \/ FlashWaitW
  \/ FlashClearR
  \/ FlashReadIssue
  \/ FlashWaitR
  \/ FlashPrint
  \/ FlashDelayCall
  \/ FlashDelayReturn
  \/ FlashWriteComplete
  \/ FlashReadComplete
  \/ flash_write_done
  \/ read_done

FlashSpec == FlashInit /\ [][FlashNext]_vars

\* storage operations accepted and not yet acknowledged to main
FlashOutstanding ==
  flash.winflight + flash.rinflight + flash.wcbq + flash.rcbq

FlashTypeOK ==
  /\ flash.pc \in {"read_buffer", "read_subscribe", "write_buffer",
                   "write_subscribe", "loop", "clear_w", "write", "wait_w",
                   "clear_r", "read", "wait_r", "print", "delay",
                   "delay_wait", "done", "returned"}
  /\ flash.ret \in Rets
  /\ flash.num_runs \in 0 .. NumRuns
  /\ flash.wdone \in BOOLEAN /\ flash.rdone \in BOOLEAN
  /\ \A n \in 0 .. (len - 1) :
       /\ flash.writebuf[n] \in 0 .. (ByteMod - 1)
       /\ flash.readbuf[n] \in 0 .. (ByteMod - 1)
       /\ flash.store[n] \in 0 .. (ByteMod - 1)
  /\ flash.winflight \in 0 .. 1 /\ flash.rinflight \in 0 .. 1
  /\ flash.wcbq \in 0 .. 1 /\ flash.rcbq \in 0 .. 1

(***************************************************************************)
(* C18: in the storage smoke test the read of a round is issued only after *)
(* that round's write-done callback has set wdone, the write of the next   *)
(* round only after the read-done callback has set rdone; at most one      *)
(* storage operation is outstanding at any time, and each flag is false    *)
(* when its operation is issued.                                           *)
(***************************************************************************)
C18_OneOperationAtATime ==
  /\ [](FlashOutstanding <= 1)
  /\ [](flash.pc = "write" =>
          /\ ~flash.wdone
          /\ FlashOutstanding = 0
          /\ (flash.num_runs > 0 => flash.rdone))
  /\ [](flash.pc = "read" =>
          /\ ~flash.rdone
          /\ flash.wdone
          /\ FlashOutstanding = 0
          /\ Len(flash.fills) = flash.reads + 1)
  /\ [][ /\ (~flash.wdone /\ flash'.wdone) =>
              (flash.pc = "wait_w" /\ flash'.wcbq = flash.wcbq - 1)
         /\ (~flash.rdone /\ flash'.rdone) =>
              (flash.pc = "wait_r" /\ flash'.rcbq = flash.rcbq - 1)
         /\ (flash.wdone /\ ~flash'.wdone) => flash'.pc = "write"
         /\ (flash.rdone /\ ~flash'.rdone) => flash'.pc = "read" ]_vars

\* the read of the second round is outstanding
C18_Witness ==
  /\ flash.pc = "wait_r"
  /\ flash.rinflight = 1
  /\ flash.num_runs = 1
  /\ flash.wdone

\* the subscriptions succeed, so completions reach the callbacks
FlashReadSubscribeOk == FlashReadSubscribe /\ flash'.rsub
FlashWriteSubscribeOk == FlashWriteSubscribe /\ flash'.wsub

FlashLiveNext ==
  \/ FlashReadBuffer
  \/ FlashReadSubscribeOk
  \/ FlashWriteBuffer
  \/ FlashWriteSubscribeOk
  \/ FlashFill
  \/ FlashDone
  \/ FlashClearW
  \/ FlashWriteIssue
  \/ FlashWaitW
  \/ FlashClearR
  \/ FlashReadIssue
  \/ FlashWaitR
  \/ FlashPrint
  \/ FlashDelayCall
  \/ FlashDelayReturn
  \/ FlashWriteComplete
  \/ FlashReadComplete
  \/ flash_write_done
  \/ read_done

\* every call returns and every completion is delivered
FlashLiveSpec == FlashInit /\ [][FlashLiveNext]_vars /\ WF_vars(FlashLiveNext)

\* the fill values of NumRuns rounds: 4, 5, 6, 7, 8
AllFills == [n \in 1 .. NumRuns |-> (FillBase + n - 1) % ByteMod]

(***************************************************************************)
(* C19: when completions are delivered the storage smoke test terminates.  *)
(* It performs at most NumRuns write-then-read rounds, and exactly NumRuns *)
(* with fill values 4, 5, 6, 7, 8 when it reaches Done; a write or read    *)
(* issue that returns nonzero ends main at once with that code, and no     *)
(* operation is issued afterwards.                                         *)
(***************************************************************************)
C19_Terminates ==
  /\ <>(flash.pc \in {"done", "returned"})
  /\ [](/\ Len(flash.fills) <= NumRuns
        /\ flash.reads <= Len(flash.fills)
        /\ flash.fills = SubSeq(AllFills, 1, Len(flash.fills)))
  /\ [](flash.pc = "done" =>
          /\ flash.num_runs = NumRuns
          /\ flash.fills = AllFills
          /\ flash.reads = NumRuns
          /\ FlashOutstanding = 0)
  /\ [](flash.pc = "returned" =>
          /\ flash.ret # 0
          /\ flash.code = flash.ret
          /\ FlashOutstanding = 0)
  /\ [][ /\ (flash.pc \in {"write", "read"} /\ flash'.ret # 0) =>
              /\ flash'.pc = "returned"
              /\ flash'.fills = flash.fills
              /\ flash'.reads = flash.reads
         /\ flash.pc \in {"done", "returned"} => flash' = flash ]_vars

\* Done is reached after five accepted rounds
C19_Witness ==
  /\ flash.pc = "done"
  /\ flash.fills = << 4, 5, 6, 7, 8 >>
  /\ flash.reads = 5
  /\ "Done" \in flash.console

(***************************************************************************)
(* The SPI loopback test, part_001.                                        *)
(***************************************************************************)
SpiInit ==
  /\ LoggerParked
  /\ flash = FlashBoot(0, 0)
  /\ spi = SpiBoot

\* a step of the SPI loopback test to state t
SpiStep(t) ==
  /\ spi' = t
  /\ UNCHANGED loggerVars
  /\ UNCHANGED flash

SpiIndex == 0 .. (BUF_SIZE - 1)

\* main: for (i = 0; i < BUF_SIZE; i++) wbuf[i] = i;
SpiFill ==
  /\ spi.pc = "fill"
  /\ SpiStep([spi EXCEPT !.wbuf = [n \in SpiIndex |-> n % ByteMod],
                !.pc = "config"])

\* main: select_spi_bus(0) ... spi_set_phase(false); the results are ignored
SpiConfig ==
  /\ spi.pc = "config"
  /\ SpiStep([spi EXCEPT !.pc = "issue"])

\* spi_read_write(wbuf, rbuf, BUF_SIZE, write_cb, NULL) called from position
\* at: the result is ignored; an accepted transfer is on the bus.  The caller
\* then returns: main to the idle loop, a nested callback to the delay that
\* it interrupted.
SpiIssueAt(at) ==
  /\ spi.pc = at
  /\ \E r \in Rets :
       SpiStep([spi EXCEPT
                  !.inflight = IF r = 0 THEN @ + 1 ELSE @,
                  !.depth = IF @ > 0 THEN @ - 1 ELSE @,
                  !.pc = IF spi.depth > 1 THEN "delay_wait" ELSE "idle"])

\* main, line 67: the first transfer, then main returns
SpiFirstIssue == SpiIssueAt("issue")

\* the bytes the bus may deliver for a transfer of w: w itself with the
\* loopback in place, otherwise w with a byte changed
Received(w) ==
  {w} \cup {[w EXCEPT ![x] = (@ + 1) % ByteMod] : x \in {0, BUF_SIZE - 1}}

\* the bus finishes the transfer: rbuf is filled and the callback is queued
SpiComplete ==
  /\ spi.inflight > 0
  /\ \E r \in Received(spi.wbuf) :
       SpiStep([spi EXCEPT !.inflight = @ - 1, !.cbq = @ + 1, !.rbuf = r])

\* the process has yielded to the dispatcher: main has returned, or the
\* callback waits in delay_ms
SpiYielded == spi.pc \in {"idle", "delay_wait"}

\* the first index at which rbuf and wbuf differ
FirstMismatch(r, w) ==
  CHOOSE x \in SpiIndex :
    /\ r[x] # w[x]
    /\ \A y \in 0 .. (x - 1) : r[y] = w[y]

\* write_cb that reports a mismatch and then goes on
write_cb_NoStop ==
  /\ SpiYielded
  /\ spi.cbq > 0
  /\ SpiStep(IF spi.rbuf = spi.wbuf
             THEN [spi EXCEPT !.cbq = @ - 1, !.depth = @ + 1, !.pc = "incr"]
             ELSE [spi EXCEPT !.cbq = @ - 1, !.depth = @ + 1,
                     !.console = @ \cup {<< "Receive failed at character",
                                           FirstMismatch(spi.rbuf, spi.wbuf) >>},
                     !.led0 = TRUE,
                     !.pc = "incr"])

\* write_cb is delivered, lines 19-25: the buffers are compared; the first
\* differing byte is printed, LED 0 is switched on and while (1) {} follows
write_cb ==
  /\ SpiYielded
  /\ spi.cbq > 0
  /\ SpiStep(IF spi.rbuf = spi.wbuf
             THEN [spi EXCEPT !.cbq = @ - 1, !.depth = @ + 1, !.pc = "incr"]
             ELSE [spi EXCEPT !.cbq = @ - 1, !.depth = @ + 1,
                     !.console = @ \cup {<< "Receive failed at character",
                                           FirstMismatch(spi.rbuf, spi.wbuf) >>},
                     !.led0 = TRUE,
                     !.pc = "failed"])

\* write_cb, lines 27-29: for (i = 0; i < BUF_SIZE; i++) wbuf[i]++;
SpiIncrement ==
  /\ spi.pc = "incr"
  /\ SpiStep([spi EXCEPT
                !.wbuf = [n \in SpiIndex |-> (spi.wbuf[n] + 1) % ByteMod],
                !.pc = "delay"])

\* write_cb, line 31: delay_ms(500) is entered and yields
SpiDelayCall ==
  /\ spi.pc = "delay"
  /\ SpiStep([spi EXCEPT !.pc = "delay_wait"])

\* delay_ms(500) returns
SpiDelayReturn ==
  /\ spi.pc = "delay_wait"
  /\ SpiStep([spi EXCEPT !.pc = "reissue"])

\* write_cb, line 33: the next transfer, then the callback returns
SpiReissue == SpiIssueAt("reissue")

SpiNext ==
  \/ SpiFill
  \/ SpiConfig
  \/ SpiFirstIssue
  \/ SpiComplete
  \/ write_cb
  \/ SpiIncrement
  \/ SpiDelayCall
  \/ SpiDelayReturn
  \/ SpiReissue

SpiSpec == SpiInit /\ [][SpiNext]_vars

\* transfers accepted by the bus whose callback has not yet run
SpiOutstanding == spi.inflight + spi.cbq

SpiTypeOK ==
  /\ spi.pc \in {"fill", "config", "issue", "idle", "incr", "delay",
                 "delay_wait", "reissue", "failed"}
  /\ \A n \in SpiIndex :
       spi.wbuf[n] \in 0 .. (ByteMod - 1) /\ spi.rbuf[n] \in 0 .. (ByteMod - 1)
  /\ spi.inflight \in 0 .. 1 /\ spi.cbq \in 0 .. 1 /\ spi.depth \in 0 .. 1
  /\ spi.led0 \in BOOLEAN

(***************************************************************************)
(* C20: in the SPI loopback test at most one transfer is outstanding at    *)
(* any time.  main issues the first transfer; a callback that finds rbuf   *)
(* equal to wbuf over all BUF_SIZE bytes increments every byte of wbuf and *)
(* issues exactly one next transfer; a callback that finds a mismatch      *)
(* switches LED 0 on and stays in its failure loop, so that no transfer is *)
(* issued afterwards.                                                      *)
(***************************************************************************)
C20_OneTransferAtATime ==
  /\ [](SpiOutstanding <= 1 /\ spi.depth <= 1)
  /\ [](spi.pc \in {"incr", "delay", "delay_wait", "reissue", "failed"} =>
          SpiOutstanding = 0 /\ spi.depth = 1)
  /\ [](spi.pc \in {"delay", "delay_wait", "reissue"} =>
          \A n \in SpiIndex : spi.wbuf[n] = (spi.rbuf[n] + 1) % ByteMod)
  /\ [](spi.led0 <=> spi.pc = "failed")
  /\ [](spi.pc = "failed" => spi.rbuf # spi.wbuf)
  /\ [][ /\ spi'.inflight > spi.inflight =>
              /\ spi'.inflight = spi.inflight + 1
              /\ spi.pc \in {"issue", "reissue"}
              /\ spi'.pc = "idle"
              /\ SpiOutstanding = 0
         /\ spi'.cbq < spi.cbq =>
              /\ spi.rbuf = spi.wbuf => spi'.pc = "incr"
              /\ spi.rbuf # spi.wbuf => spi'.pc = "failed"
         /\ spi'.wbuf # spi.wbuf =>
              \/ spi.pc = "fill"
              \/ /\ spi.pc = "incr"
                 /\ \A n \in SpiIndex :
                      spi'.wbuf[n] = (spi.wbuf[n] + 1) % ByteMod
         /\ spi.pc = "incr" => spi'.pc = "delay"
         /\ spi.pc = "delay" => spi'.pc = "delay_wait"
         /\ spi.pc = "delay_wait" => spi'.pc = "reissue"
         /\ spi.pc = "reissue" => spi'.pc = "idle"
         /\ spi.pc = "failed" => spi' = spi ]_vars

\* a callback found the loopback intact, incremented wbuf past the wrap of
\* its last byte and issued the next transfer, which is on the bus
C20_Witness ==
  /\ spi.pc = "idle"
  /\ spi.inflight = 1
  /\ spi.depth = 0
  /\ spi.wbuf[0] = 57
  /\ spi.wbuf[BUF_SIZE - 1] = 0
  /\ spi.rbuf[BUF_SIZE - 1] = ByteMod - 1

====
